---- MODULE Spec2Model ----
(***************************************************************************)
(* Circuit propagation engine of relay-sim (src/src/main.rs): the fixed    *)
(* rate system `simulate`, its helper `walk_wires`, the palette handlers   *)
(* and the placement handlers behind `accept_input`.                       *)
(*                                                                         *)
(* Vec indices are 0-based in the source and 1-based here; nothing else    *)
(* is shifted.                                                             *)
(***************************************************************************)
EXTENDS Integers, Sequences, FiniteSets, TLC

VARIABLES
    wires,             \* Query<&Wire>, in iteration order: [first, second]
    button_switches,   \* Query<&ButtonSwitch>: [id, typ, top, bottom]
    relay_switches,    \* Query<&RelaySwitch>: [id, typ, top, bottom]
    relay_coils,       \* Query<&mut RelayCoil>: [id, top, bottom, activated]
    lights,            \* Query<&Light>: [id, top, bottom]
    ui_lights,         \* Query<&mut UILight>: id -> is_lit
    ui_buttons,        \* Query<&mut UIButton>: id -> has_been_pressed
    power_sources,     \* Query<(&GridPosition, &Power)>: [pos, typ]
    currently_placing, \* Res<CurrentlyPlacing>: [kind] or [kind, id] or [kind, id, typ]
    wire_origin,       \* Local<Option<GridPosition>> of handle_wire_placement
    active_button_ids, \* local of the last simulate run
    button_wires,      \* local of the last simulate run
    active_relay_ids,  \* local of the last simulate run
    relay_wires,       \* local of the last simulate run
    wire_positions,    \* local of the last simulate run, after the walks
    wire_connections,  \* local of the last simulate run
    outcome,           \* how the last simulate run ended
    last_system        \* the system that ran last

vars == << wires, button_switches, relay_switches, relay_coils, lights,
           ui_lights, ui_buttons, power_sources, currently_placing,
           wire_origin, active_button_ids,
           button_wires, active_relay_ids, relay_wires, wire_positions,
           wire_connections, outcome, last_system >>

(***************************************************************************)
(* Bounds of the model.                                                    *)
(***************************************************************************)
\* ids 1..NumIds of the palette are used (the program offers 1..=6)
NumIds == 2
\* size of the circuits: Init has at most MaxElems placed elements,
\* InitConsumers one more (a consumer and a conductor at each terminal) and
\* InitRelay two more (a coil, its contact and a conductor at each terminal)
MaxElems == 2

\* y of the two power sources
PosY == 19
NegY == 16

Ids == 1..NumIds

GridPosition(x, y) == [x |-> x, y |-> y]

\* the grid cells the model places elements on: the column of the power
\* sources, from the negative to the positive one
Cells == {GridPosition(0, y) : y \in NegY..PosY}

\* the same column with the cell below the negative source
WideCells == {GridPosition(0, y) : y \in (NegY - 1)..PosY}

SwitchType == {"NormallyOpen", "NormallyClosed"}

\* Option<T>: None and Some(v)
None == << >>
Some(v) == << v >>

\* enum CurrentlyPlacing; the label of a variant is a function of its id and
\* is left out
PlacingWire == [kind |-> "Wire"]
PlacingLight(id) == [kind |-> "Light", id |-> id]
PlacingButton(id, typ) == [kind |-> "Button", id |-> id, typ |-> typ]
PlacingRelayCoil(id) == [kind |-> "RelayCoil", id |-> id]
PlacingRelaySwitch(id, typ) == [kind |-> "RelaySwitch", id |-> id, typ |-> typ]

\* enum Visited
Visited == {"Positive", "Negative", "Unvisited"}

\* impl From<&ButtonSwitch> for Wire, impl From<&RelaySwitch> for Wire
WireFrom(switch) == [first |-> switch.top, second |-> switch.bottom]

(***************************************************************************)
(* Helpers standing for the Rust iterator adaptors.                        *)
(***************************************************************************)
\* Vec::contains
Contains(seq, e) == \E i \in 1..Len(seq) : seq[i] = e

\* iter().position(|p| p.0 == pos): least index whose position is pos, 0 for None
Position(positions, pos) ==
    IF \E i \in 1..Len(positions) : positions[i].pos = pos
    THEN CHOOSE i \in 1..Len(positions) :
            /\ positions[i].pos = pos
            /\ \A j \in 1..(i - 1) : positions[j].pos # pos
    ELSE 0

\* iter().map(f) on a sequence
RECURSIVE MapWire(_)
MapWire(seq) ==
    IF seq = << >> THEN << >>
    ELSE << WireFrom(Head(seq)) >> \o MapWire(Tail(seq))

(***************************************************************************)
(* simulate, lines 1719-1750: latch capture and effective wires.           *)
(***************************************************************************)
\* lines 1720-1726: ids of the pressed UI buttons, in iteration order
RECURSIVE PressedFrom(_, _)
PressedFrom(buttons, i) ==
    IF i > NumIds THEN << >>
    ELSE (IF buttons[i] THEN << i >> ELSE << >>) \o PressedFrom(buttons, i + 1)

ActiveButtonIds(buttons) == PressedFrom(buttons, 1)

\* ActiveRelayIds with the test of activated left out
ActiveRelayIdsAll(coils) == [k \in 1..Len(coils) |-> coils[k].id]

\* ActiveRelayIds reading the flag after the reset of line 1741
ActiveRelayIdsAfterReset(coils) == << >>

\* lines 1736-1742: ids of the activated coils, in iteration order
RECURSIVE ActiveRelayIds(_)
ActiveRelayIds(coils) ==
    IF coils = << >> THEN << >>
    ELSE (IF Head(coils).activated THEN << Head(coils).id >> ELSE << >>)
         \o ActiveRelayIds(Tail(coils))

\* Conducts with the kind of the switch ignored
ConductsIgnoringKind(switch, active_ids) == Contains(active_ids, switch.id)

\* the filter closures of lines 1730-1733 and 1746-1749
Conducts(switch, active_ids) ==
    IF switch.typ = "NormallyOpen"
    THEN Contains(active_ids, switch.id)
    ELSE ~Contains(active_ids, switch.id)

\* EffectiveWires keeping only the first conducting switch
EffectiveWiresFirstOnly(switches, active_ids) ==
    LET all == SelectSeq(switches, LAMBDA s : Conducts(s, active_ids))
    IN IF all = << >> THEN << >> ELSE << WireFrom(Head(all)) >>

\* lines 1728-1734 and 1744-1750
EffectiveWires(switches, active_ids) ==
    MapWire(SelectSeq(switches, LAMBDA s : Conducts(s, active_ids)))

\* ResetButtons with the reset left out
ResetButtonsKeep(buttons) == buttons

\* line 1725
ResetButtons(buttons) == [i \in Ids |-> FALSE]

\* ResetCoils with the reset left out
ResetCoilsKeep(coils) == coils

\* ResetCoils overwriting the whole component instead of the flag
ResetCoilsDefault(coils) ==
    [k \in 1..Len(coils) |->
        [id |-> 0, top |-> GridPosition(0, 0), bottom |-> GridPosition(0, 0),
         activated |-> FALSE]]

\* line 1741, for every coil
ResetCoils(coils) ==
    [k \in 1..Len(coils) |-> [coils[k] EXCEPT !.activated = FALSE]]

\* the chain of lines 1752-1756
Elements(ws, bws, rws) == ws \o bws \o rws

(***************************************************************************)
(* simulate, lines 1752-1772: node list and edge list.                     *)
(***************************************************************************)
\* lines 1764-1769 for one endpoint: the node list after the lookup
\* PushPosition without the lookup of line 1764: every endpoint is appended
PushPositionAlways(positions, pos) ==
    Append(positions, [pos |-> pos, mark |-> "Unvisited"])

PushPosition(positions, pos) ==
    IF Position(positions, pos) # 0 THEN positions
    ELSE Append(positions, [pos |-> pos, mark |-> "Unvisited"])

\* BuildTopology pushing a connection only if the list does not hold it yet
RECURSIVE BuildTopologyDistinctEdges(_, _, _)
BuildTopologyDistinctEdges(elems, positions, connections) ==
    IF elems = << >> THEN [positions |-> positions, connections |-> connections]
    ELSE LET wire == Head(elems)
             p1 == PushPosition(positions, wire.first)
             first_index == Position(p1, wire.first)
             p2 == PushPosition(p1, wire.second)
             second_index == Position(p2, wire.second)
             edge == << first_index, second_index >>
         IN BuildTopologyDistinctEdges(Tail(elems), p2,
                IF \E n \in 1..Len(connections) : connections[n] = edge
                THEN connections ELSE Append(connections, edge))

\* BuildTopology without the assignment of line 1765: the index of a position
\* that is already a node keeps its initial value, the first node
RECURSIVE BuildTopologyFoundIndexLost(_, _, _)
BuildTopologyFoundIndexLost(elems, positions, connections) ==
    IF elems = << >> THEN [positions |-> positions, connections |-> connections]
    ELSE LET wire == Head(elems)
             p1 == PushPosition(positions, wire.first)
             first_index == IF Position(positions, wire.first) # 0 THEN 1
                            ELSE Len(p1)
             p2 == PushPosition(p1, wire.second)
             second_index == IF Position(p1, wire.second) # 0 THEN 1
                             ELSE Len(p2)
         IN BuildTopologyFoundIndexLost(Tail(elems), p2,
                Append(connections, << first_index, second_index >>))

RECURSIVE BuildTopology(_, _, _)
BuildTopology(elems, positions, connections) ==
    IF elems = << >> THEN [positions |-> positions, connections |-> connections]
    ELSE LET wire == Head(elems)
             p1 == PushPosition(positions, wire.first)
             first_index == Position(p1, wire.first)
             p2 == PushPosition(p1, wire.second)
             second_index == Position(p2, wire.second)
         IN BuildTopology(Tail(elems), p2,
                          Append(connections, << first_index, second_index >>))

(***************************************************************************)
(* walk_wires, lines 1856-1897.                                            *)
(***************************************************************************)
\* NextConnections following a connection from first to second only
RECURSIVE NextConnectionsDirected(_, _, _, _)
NextConnectionsDirected(connections, index, positions, mark) ==
    IF connections = << >> THEN << >>
    ELSE LET c == Head(connections)
         IN (IF c[1] = index /\ positions[c[2]].mark # mark
             THEN << positions[c[2]].pos >> ELSE << >>)
            \o NextConnectionsDirected(Tail(connections), index, positions, mark)

\* NextConnections stopping at the first neighbour it finds
RECURSIVE NextConnectionsFirst(_, _, _, _)
NextConnectionsFirst(connections, index, positions, mark) ==
    IF connections = << >> THEN << >>
    ELSE LET c == Head(connections)
             other == IF c[1] = index THEN c[2]
                      ELSE IF c[2] = index THEN c[1] ELSE 0
         IN IF other # 0 /\ positions[other].mark # mark
            THEN << positions[other].pos >>
            ELSE NextConnectionsFirst(Tail(connections), index, positions, mark)

\* NextConnections with the filter on the mark of line 1891 left out
RECURSIVE NextConnectionsUnfiltered(_, _, _, _)
NextConnectionsUnfiltered(connections, index, positions, mark) ==
    IF connections = << >> THEN << >>
    ELSE LET c == Head(connections)
             other == IF c[1] = index THEN c[2]
                      ELSE IF c[2] = index THEN c[1] ELSE 0
         IN (IF other # 0 THEN << positions[other].pos >> ELSE << >>)
            \o NextConnectionsUnfiltered(Tail(connections), index, positions, mark)

\* lines 1880-1892: positions of the neighbours of index whose mark differs
RECURSIVE NextConnections(_, _, _, _)
NextConnections(connections, index, positions, mark) ==
    IF connections = << >> THEN << >>
    ELSE LET c == Head(connections)
             other == IF c[1] = index THEN c[2]
                      ELSE IF c[2] = index THEN c[1] ELSE 0
         IN (IF other # 0 /\ positions[other].mark # mark
             THEN << positions[other].pos >> ELSE << >>)
            \o NextConnections(Tail(connections), index, positions, mark)

\* WalkLoop failing on a popped position that is no node
RECURSIVE WalkLoopMissingFails(_, _, _, _)
WalkLoopMissingFails(to_visit, mark, positions, connections) ==
    IF to_visit = << >> THEN [ok |-> TRUE, positions |-> positions]
    ELSE LET pos == to_visit[Len(to_visit)]
             rest == SubSeq(to_visit, 1, Len(to_visit) - 1)
             index == Position(positions, pos)
         IN IF index = 0 THEN [ok |-> FALSE, positions |-> positions]
            ELSE IF positions[index].mark = "Unvisited"
            THEN LET marked == [positions EXCEPT ![index].mark = mark]
                 IN WalkLoopMissingFails(
                        rest \o NextConnections(connections, index, marked, mark),
                        mark, marked, connections)
            ELSE IF positions[index].mark # mark
            THEN [ok |-> FALSE, positions |-> positions]
            ELSE WalkLoopMissingFails(rest, mark, positions, connections)

\* WalkLoop failing on every popped node that is already marked
RECURSIVE WalkLoopRevisitFails(_, _, _, _)
WalkLoopRevisitFails(to_visit, mark, positions, connections) ==
    IF to_visit = << >> THEN [ok |-> TRUE, positions |-> positions]
    ELSE LET pos == to_visit[Len(to_visit)]
             rest == SubSeq(to_visit, 1, Len(to_visit) - 1)
             index == Position(positions, pos)
         IN IF index = 0
            THEN WalkLoopRevisitFails(rest, mark, positions, connections)
            ELSE IF positions[index].mark = "Unvisited"
            THEN LET marked == [positions EXCEPT ![index].mark = mark]
                 IN WalkLoopRevisitFails(
                        rest \o NextConnections(connections, index, marked, mark),
                        mark, marked, connections)
            ELSE [ok |-> FALSE, positions |-> positions]

\* the while loop of lines 1864-1895; to_visit is a stack popped at its end
RECURSIVE WalkLoop(_, _, _, _)
WalkLoop(to_visit, mark, positions, connections) ==
    IF to_visit = << >> THEN [ok |-> TRUE, positions |-> positions]
    ELSE LET pos == to_visit[Len(to_visit)]
             rest == SubSeq(to_visit, 1, Len(to_visit) - 1)
             index == Position(positions, pos)
         IN IF index = 0 THEN WalkLoop(rest, mark, positions, connections)
            ELSE IF positions[index].mark = "Unvisited"
            THEN LET marked == [positions EXCEPT ![index].mark = mark]
                 IN WalkLoop(rest \o NextConnections(connections, index, marked, mark),
                             mark, marked, connections)
            ELSE IF positions[index].mark # mark
            THEN [ok |-> FALSE, positions |-> positions]
            ELSE WalkLoop(rest, mark, positions, connections)

walk_wires(source, mark, positions, connections) ==
    WalkLoop(<< source >>, mark, positions, connections)

\* the while loop of lines 1864-1895 with its work counted: pops is the
\* number of iterations, marked the indices written at line 1870, in order
RECURSIVE WalkCount(_, _, _, _, _, _)
WalkCount(to_visit, mark, positions, connections, pops, marked) ==
    IF to_visit = << >>
    THEN [ok |-> TRUE, positions |-> positions, pops |-> pops, marked |-> marked]
    ELSE LET pos == to_visit[Len(to_visit)]
             rest == SubSeq(to_visit, 1, Len(to_visit) - 1)
             index == Position(positions, pos)
         IN IF index = 0
            THEN WalkCount(rest, mark, positions, connections, pops + 1, marked)
            ELSE IF positions[index].mark = "Unvisited"
            THEN LET written == [positions EXCEPT ![index].mark = mark]
                 IN WalkCount(rest \o NextConnections(connections, index, written, mark),
                              mark, written, connections, pops + 1,
                              Append(marked, index))
            ELSE IF positions[index].mark # mark
            THEN [ok |-> FALSE, positions |-> positions, pops |-> pops + 1,
                  marked |-> marked]
            ELSE WalkCount(rest, mark, positions, connections, pops + 1, marked)

(***************************************************************************)
(* simulate, lines 1774-1853: the walks and the consumer resolution.       *)
(***************************************************************************)
\* lines 1774-1782; sources is the query in iteration order
PositiveSource(sources) ==
    IF sources[1].typ = "Positive" THEN sources[1].pos ELSE sources[2].pos

NegativeSource(sources) ==
    IF sources[1].typ = "Positive" THEN sources[2].pos ELSE sources[1].pos

\* Powered with the second orientation left out
PoweredOneWay(positions, top, bottom) ==
    LET top_index == Position(positions, top)
        bottom_index == Position(positions, bottom)
    IN /\ top_index # 0
       /\ bottom_index # 0
       /\ positions[top_index].mark = "Positive"
       /\ positions[bottom_index].mark = "Negative"

\* Powered with any two different marks accepted
PoweredAnyDifference(positions, top, bottom) ==
    LET top_index == Position(positions, top)
        bottom_index == Position(positions, bottom)
    IN /\ top_index # 0
       /\ bottom_index # 0
       /\ positions[top_index].mark # positions[bottom_index].mark

\* the conditions of lines 1809-1819 and 1834-1845: both terminals are nodes
\* and carry opposite polarities
Powered(positions, top, bottom) ==
    LET top_index == Position(positions, top)
        bottom_index == Position(positions, bottom)
    IN /\ top_index # 0
       /\ bottom_index # 0
       /\ \/ /\ positions[top_index].mark = "Positive"
             /\ positions[bottom_index].mark = "Negative"
          \/ /\ positions[top_index].mark = "Negative"
             /\ positions[bottom_index].mark = "Positive"

\* lines 1804-1831: every UILight is reset, then the one with the id of each
\* powered Light is set
ResolveLights(positions, ls) ==
    [i \in Ids |-> \E k \in 1..Len(ls) :
                      ls[k].id = i /\ Powered(positions, ls[k].top, ls[k].bottom)]

\* ResolveCoils with the second orientation left out
ResolveCoilsOneWay(positions, coils) ==
    [k \in 1..Len(coils) |->
        IF PoweredOneWay(positions, coils[k].top, coils[k].bottom)
        THEN [coils[k] EXCEPT !.activated = TRUE]
        ELSE coils[k]]

\* lines 1833-1853: a powered coil is set, any other coil is left as it is
ResolveCoils(positions, coils) ==
    [k \in 1..Len(coils) |->
        IF Powered(positions, coils[k].top, coils[k].bottom)
        THEN [coils[k] EXCEPT !.activated = TRUE]
        ELSE coils[k]]

\* Resolve with the reset of the lamps done before the short-circuit return
ResolveBlanking(ok, positions, ls, lit, coils) ==
    IF ok
    THEN [lit |-> ResolveLights(positions, ls),
          coils |-> ResolveCoils(positions, coils)]
    ELSE [lit |-> [i \in Ids |-> FALSE], coils |-> coils]

\* Resolve with the lamps not reset and a powered lamp toggled instead of set
ResolveToggling(ok, positions, ls, lit, coils) ==
    IF ok
    THEN [lit |-> [i \in Ids |-> IF ResolveLights(positions, ls)[i]
                                 THEN ~lit[i] ELSE lit[i]],
          coils |-> ResolveCoils(positions, coils)]
    ELSE [lit |-> lit, coils |-> coils]

\* lines 1792-1853: the early return on a short circuit, else the resolution;
\* lit and coils are the flags as the prepass left them
Resolve(ok, positions, ls, lit, coils) ==
    IF ok
    THEN [lit |-> ResolveLights(positions, ls),
          coils |-> ResolveCoils(positions, coils)]
    ELSE [lit |-> lit, coils |-> coils]

\* Simulate with every lamp and every coil chained to the wires as an edge
\* from its top to its bottom
SimulateConsumerEdges(ws, bs, rs, coils, ls, lit, buttons, sources) ==
    LET button_ids == ActiveButtonIds(buttons)
        bws == EffectiveWires(bs, button_ids)
        relay_ids == ActiveRelayIds(coils)
        rws == EffectiveWires(rs, relay_ids)
        topo == BuildTopology(Elements(ws, bws, rws) \o MapWire(ls)
                                \o MapWire(coils), << >>, << >>)
        positive == walk_wires(PositiveSource(sources), "Positive",
                               topo.positions, topo.connections)
        negative == walk_wires(NegativeSource(sources), "Negative",
                               positive.positions, topo.connections)
        prepass == [button_ids |-> button_ids, button_wires |-> bws,
                    relay_ids |-> relay_ids, relay_wires |-> rws,
                    connections |-> topo.connections,
                    buttons |-> ResetButtons(buttons)]
    IN IF ~positive.ok
       THEN prepass @@ [outcome |-> "panic", positions |-> positive.positions,
                        lit |-> lit, coils |-> ResetCoils(coils)]
       ELSE prepass
            @@ [outcome |-> IF negative.ok THEN "ok" ELSE "short",
                positions |-> negative.positions]
            @@ Resolve(negative.ok, negative.positions, ls, lit,
                       ResetCoils(coils))

\* the whole of simulate as a function of the state it reads
Simulate(ws, bs, rs, coils, ls, lit, buttons, sources) ==
    LET button_ids == ActiveButtonIds(buttons)
        bws == EffectiveWires(bs, button_ids)
        relay_ids == ActiveRelayIds(coils)
        rws == EffectiveWires(rs, relay_ids)
        topo == BuildTopology(Elements(ws, bws, rws), << >>, << >>)
        positive == walk_wires(PositiveSource(sources), "Positive",
                               topo.positions, topo.connections)
        negative == walk_wires(NegativeSource(sources), "Negative",
                               positive.positions, topo.connections)
        prepass == [button_ids |-> button_ids, button_wires |-> bws,
                    relay_ids |-> relay_ids, relay_wires |-> rws,
                    connections |-> topo.connections,
                    buttons |-> ResetButtons(buttons)]
    IN IF ~positive.ok
       THEN \* line 1790: unwrap of an Err
            prepass @@ [outcome |-> "panic", positions |-> positive.positions,
                        lit |-> lit, coils |-> ResetCoils(coils)]
       ELSE prepass
            @@ [outcome |-> IF negative.ok THEN "ok" ELSE "short",
                positions |-> negative.positions]
            @@ Resolve(negative.ok, negative.positions, ls, lit,
                       ResetCoils(coils))

(***************************************************************************)
(* The circuits the model starts from: every circuit of a bounded number   *)
(* of elements on a set of cells, as the placement handlers build them.    *)
(***************************************************************************)
\* handle_wire_placement, lines 1524-1539: the two clicked cells, which share
\* x or y
WireMenu(cells) ==
    {[first |-> a, second |-> b] : a, b \in cells}

\* the terminals of a device placed at cell c, lines 867-874, 1000-1007,
\* 1153-1160 and 1304-1311
Top(c) == GridPosition(c.x, c.y + 1)

\* the greatest usize, 2^64 - 1 on a 64-bit target.  TLC's integers end at
\* 2^31 - 1, which stands for it: the model only places it in a position and
\* compares it with the coordinates of cells far below it
UsizeMax == 2147483647

\* mouse_grid.y - 1 on usize (lines 873, 1006, 1159, 1310): above zero the
\* difference; at zero the build decides, a panic with overflow checks on
\* (None), the wrapped value with overflow checks off
SubOne(y) == IF y >= 1 THEN {Some(y - 1)} ELSE {None, Some(UsizeMax)}

\* the bottom terminal of a device placed at a cell above the lowest row
Bottom(c) == GridPosition(c.x, c.y - 1)

\* the cells a device is placed at: both terminals are cells of the model
Centers(cells) == {c \in cells : Top(c) \in cells /\ Bottom(c) \in cells}

\* handle_light_placement, lines 1302-1312
LightMenu(cells) ==
    {[id |-> i, top |-> Top(c), bottom |-> Bottom(c)] :
        i \in Ids, c \in Centers(cells)}

\* handle_button_placement and handle_relay_switch_placement, lines 997-1008
SwitchMenu(cells) ==
    {[id |-> i, typ |-> t, top |-> Top(c), bottom |-> Bottom(c)] :
        i \in Ids, t \in SwitchType, c \in Centers(cells)}

\* handle_relay_coil_placement, lines 865-876; activated is any value an
\* earlier tick can have left
CoilMenu(cells) ==
    {[id |-> i, top |-> Top(c), bottom |-> Bottom(c), activated |-> a] :
        i \in Ids, c \in Centers(cells), a \in BOOLEAN}

\* setup, lines 700-729
PowerSources ==
    << [pos |-> GridPosition(0, PosY), typ |-> "Positive"],
       [pos |-> GridPosition(0, NegY), typ |-> "Negative"] >>

\* the palette handlers (lines 1411, 1435-1437, 1485-1487) let one lamp and
\* one coil per id be placed, and one button switch per id and kind
DistinctIds(seq) ==
    \A i, j \in 1..Len(seq) : i # j => seq[i].id # seq[j].id

DistinctIdTyps(seq) ==
    \A i, j \in 1..Len(seq) :
        i # j => << seq[i].id, seq[i].typ >> # << seq[j].id, seq[j].typ >>

\* the is_lit flags earlier ticks can have left: a placed lamp is lit or not
LitChoices(ls) ==
    {lit \in [Ids -> BOOLEAN] :
        \A i \in Ids : lit[i] => \E k \in 1..Len(ls) : ls[k].id = i}

\* impl Default for CurrentlyPlacing, and the initial value of the Local
NoEdit ==
    /\ currently_placing = PlacingWire
    /\ wire_origin = None

NoLocals ==
    /\ active_button_ids = << >>
    /\ button_wires = << >>
    /\ active_relay_ids = << >>
    /\ relay_wires = << >>
    /\ wire_positions = << >>
    /\ wire_connections = << >>
    /\ outcome = "none"
    /\ last_system = "setup"

\* circuits with wires, switches, coils and lamps between the two sources,
\* with the coils activated and the lamps lit or not by earlier ticks
Init ==
    \E nw, nb, nr, nc, nl \in 0..MaxElems :
        /\ nw + nb + nr + nc + nl <= MaxElems
        /\ wires \in [1..nw -> WireMenu(Cells)]
        /\ button_switches \in [1..nb -> SwitchMenu(Cells)]
        /\ DistinctIdTyps(button_switches)
        /\ relay_switches \in [1..nr -> SwitchMenu(Cells)]
        /\ relay_coils \in [1..nc -> CoilMenu(Cells)]
        /\ DistinctIds(relay_coils)
        /\ lights \in [1..nl -> LightMenu(Cells)]
        /\ DistinctIds(lights)
        /\ ui_lights \in LitChoices(lights)
        /\ ui_buttons = [i \in Ids |-> FALSE]
        /\ power_sources = PowerSources
        /\ NoEdit
        /\ NoLocals

\* circuits with wires and at least one coil or lamp, without switches, on
\* the wider column, with the lamps lit or unlit by earlier ticks
InitConsumers ==
    \E nw, nc, nl \in 0..(MaxElems + 1) :
        /\ nw + nc + nl <= MaxElems + 1
        /\ nc + nl >= 1
        /\ wires \in [1..nw -> WireMenu(WideCells)]
        /\ button_switches = << >>
        /\ relay_switches = << >>
        /\ relay_coils \in [1..nc -> CoilMenu(WideCells)]
        /\ DistinctIds(relay_coils)
        /\ lights \in [1..nl -> LightMenu(WideCells)]
        /\ DistinctIds(lights)
        /\ ui_lights \in LitChoices(lights)
        /\ ui_buttons = [i \in Ids |-> FALSE]
        /\ power_sources = PowerSources
        /\ NoEdit
        /\ NoLocals

\* feedback circuits: one coil, at least one relay switch and wires, of at
\* most MaxElems + 2 elements, between the two sources
InitRelay ==
    \E nw \in 0..MaxElems, nr \in 1..(MaxElems + 1) :
        /\ nw + nr <= MaxElems + 1
        /\ wires \in [1..nw -> WireMenu(Cells)]
        /\ button_switches = << >>
        /\ relay_switches \in [1..nr -> SwitchMenu(Cells)]
        /\ relay_coils \in [1..1 -> CoilMenu(Cells)]
        /\ lights = << >>
        /\ ui_lights = [i \in Ids |-> FALSE]
        /\ ui_buttons = [i \in Ids |-> FALSE]
        /\ power_sources = PowerSources
        /\ NoEdit
        /\ NoLocals

(***************************************************************************)
(* Actions.                                                                *)
(***************************************************************************)
\* the UI buttons the model presses: those with a switch on the board (the
\* flag of any other id is read by no switch)
PressableIds == {button_switches[k].id : k \in 1..Len(button_switches)}

\* handle_button_button_press, lines 1428-1432: the UI button of id i is held;
\* the same click, left of the grid, reaches handle_wire_placement at lines
\* 1687-1691 when wires are being placed
Press(i) ==
    /\ outcome # "panic"
    /\ i \in PressableIds
    /\ ui_buttons' = [ui_buttons EXCEPT ![i] = TRUE]
    /\ wire_origin' = IF currently_placing = PlacingWire THEN None ELSE wire_origin
    /\ last_system' = "handle_button_button_press"
    /\ UNCHANGED << wires, button_switches, relay_switches, relay_coils, lights,
                    ui_lights, power_sources, currently_placing,
                    active_button_ids, button_wires,
                    active_relay_ids, relay_wires, wire_positions,
                    wire_connections, outcome >>

\* one run of the FixedUpdate system simulate
Tick ==
    /\ outcome # "panic"
    /\ LET r == Simulate(wires, button_switches, relay_switches, relay_coils,
                         lights, ui_lights, ui_buttons, power_sources)
       IN /\ ui_buttons' = r.buttons
          /\ relay_coils' = r.coils
          /\ ui_lights' = r.lit
          /\ active_button_ids' = r.button_ids
          /\ button_wires' = r.button_wires
          /\ active_relay_ids' = r.relay_ids
          /\ relay_wires' = r.relay_wires
          /\ wire_positions' = r.positions
          /\ wire_connections' = r.connections
          /\ outcome' = r.outcome
    /\ last_system' = "simulate"
    /\ UNCHANGED << wires, button_switches, relay_switches, lights, power_sources,
                    currently_placing, wire_origin >>

Next == Tick \/ \E i \in Ids : Press(i)

Spec == Init /\ [][Next]_vars

NextConsumers == Tick

SpecConsumers == InitConsumers /\ [][NextConsumers]_vars

NextRelay == Tick

SpecRelay == InitRelay /\ [][NextRelay]_vars

\* boards of wires only, of at most MaxElems + 1 wires between the two
\* sources: loops, parallel wires and cycles included
InitWires ==
    \E nw \in 0..(MaxElems + 1) :
        /\ wires \in [1..nw -> WireMenu(Cells)]
        /\ button_switches = << >>
        /\ relay_switches = << >>
        /\ relay_coils = << >>
        /\ lights = << >>
        /\ ui_lights = [i \in Ids |-> FALSE]
        /\ ui_buttons = [i \in Ids |-> FALSE]
        /\ power_sources = PowerSources
        /\ NoEdit
        /\ NoLocals

NextWires == Tick

SpecWires == InitWires /\ [][NextWires]_vars

\* circuits of two rails, a wire on each source, up to MaxElems - 1 further
\* wires and one or two lamps or coils between the sources
InitSeries ==
    \E nw \in 0..(MaxElems - 1), nc, nl \in 0..2 :
        /\ nc + nl \in 1..2
        /\ \E free \in [1..nw -> WireMenu(Cells)] :
              wires = << [first |-> GridPosition(0, PosY),
                          second |-> GridPosition(0, PosY)],
                         [first |-> GridPosition(0, NegY),
                          second |-> GridPosition(0, NegY)] >> \o free
        /\ button_switches = << >>
        /\ relay_switches = << >>
        /\ relay_coils \in [1..nc -> CoilMenu(Cells)]
        /\ DistinctIds(relay_coils)
        /\ lights \in [1..nl -> LightMenu(Cells)]
        /\ DistinctIds(lights)
        /\ ui_lights \in LitChoices(lights)
        /\ ui_buttons = [i \in Ids |-> FALSE]
        /\ power_sources = PowerSources
        /\ NoEdit
        /\ NoLocals

NextSeries == Tick

SpecSeries == InitSeries /\ [][NextSeries]_vars

\* circuits of two rails, a wire on each source, up to MaxElems - 1 further
\* wires, one coil, one button switch and one relay switch
InitHolding ==
    \E nw \in 0..(MaxElems - 1) :
        /\ \E free \in [1..nw -> WireMenu(Cells)] :
              wires = << [first |-> GridPosition(0, PosY),
                          second |-> GridPosition(0, PosY)],
                         [first |-> GridPosition(0, NegY),
                          second |-> GridPosition(0, NegY)] >> \o free
        /\ button_switches \in [1..1 -> SwitchMenu(Cells)]
        /\ relay_switches \in [1..1 -> SwitchMenu(Cells)]
        /\ relay_coils \in [1..1 -> CoilMenu(Cells)]
        /\ lights = << >>
        /\ ui_lights = [i \in Ids |-> FALSE]
        /\ ui_buttons = [i \in Ids |-> FALSE]
        /\ power_sources = PowerSources
        /\ NoEdit
        /\ NoLocals

NextHolding == Tick \/ \E i \in Ids : Press(i)

SpecHolding == InitHolding /\ [][NextHolding]_vars

(***************************************************************************)
(* The editor: accept_input with the placement handlers, and the palette   *)
(* handlers.  A click is the cell convert_mouse_to_grid returns; a click   *)
(* left of the grid (on the palette) gives None.                           *)
(***************************************************************************)
\* line 1465
RelaySwitchCap == 5

\* the cells the model clicks on: those of the two power sources
BoardCells == {GridPosition(0, PosY), GridPosition(0, NegY)}

\* the number of placed elements
BoardSize ==
    Len(wires) + Len(button_switches) + Len(relay_switches)
    + Len(relay_coils) + Len(lights)

\* the model selects and places only while the board holds fewer than
\* MaxElems elements
Room == BoardSize < MaxElems

\* the record of the last simulate run is dropped when the editor acts
DropLocals ==
    /\ active_button_ids' = << >>
    /\ button_wires' = << >>
    /\ active_relay_ids' = << >>
    /\ relay_wires' = << >>
    /\ wire_positions' = << >>
    /\ wire_connections' = << >>
    /\ outcome' = "none"

\* Aligned without the test of line 1524
AlignedAlways(a, b) == TRUE

\* line 1524
Aligned(a, b) == a.x = b.x \/ a.y = b.y

Min(a, b) == IF a <= b THEN a ELSE b
Max(a, b) == IF a <= b THEN b ELSE a

\* lines 1621-1639: the wire runs over the clicked cell
WireHit(wire, cell) ==
    IF wire.first.x = wire.second.x
    THEN /\ wire.first.x = cell.x
         /\ Min(wire.first.y, wire.second.y) <= cell.y
         /\ cell.y <= Max(wire.first.y, wire.second.y)
    ELSE IF wire.first.y = wire.second.y
    THEN /\ wire.first.y = cell.y
         /\ Min(wire.first.x, wire.second.x) <= cell.x
         /\ cell.x <= Max(wire.first.x, wire.second.x)
    ELSE FALSE

\* lines 1643-1648 and the three loops after it: the clicked cell is the top,
\* the bottom or the middle of the device
DeviceHit(device, cell) ==
    \/ device.top = cell
    \/ device.bottom = cell
    \/ [device.top EXCEPT !.y = @ - 1] = cell

\* despawn_recursive of the entities hit; the others keep their order
WithoutWires(ws, cell) == SelectSeq(ws, LAMBDA w : ~WireHit(w, cell))
WithoutDevices(devices, cell) == SelectSeq(devices, LAMBDA d : ~DeviceHit(d, cell))

\* the model draws a wire only while the board has room for it
WireRoom(cell) == (wire_origin # None /\ Aligned(cell, wire_origin[1])) => Room

\* WireLeftClick without the assignment of line 1613: the second click
\* leaves the origin pending
WireLeftClickKeepsOrigin(cell) ==
    /\ outcome # "panic"
    /\ currently_placing = PlacingWire
    /\ IF wire_origin = None
       THEN /\ wire_origin' = Some(cell)
            /\ wires' = wires
       ELSE /\ wires' = IF Aligned(cell, wire_origin[1])
                        THEN Append(wires, [first |-> wire_origin[1], second |-> cell])
                        ELSE wires
            /\ wire_origin' = wire_origin
    /\ last_system' = "handle_wire_placement"
    /\ DropLocals
    /\ UNCHANGED << button_switches, relay_switches, relay_coils, lights,
                    ui_lights, ui_buttons, power_sources, currently_placing >>

\* handle_wire_placement, lines 1517-1613: left click on a cell
WireLeftClick(cell) ==
    /\ outcome # "panic"
    /\ currently_placing = PlacingWire
    /\ IF wire_origin = None
       THEN /\ wire_origin' = Some(cell)
            /\ wires' = wires
       ELSE /\ wires' = IF Aligned(cell, wire_origin[1])
                        THEN Append(wires, [first |-> wire_origin[1], second |-> cell])
                        ELSE wires
            /\ wire_origin' = None
    /\ last_system' = "handle_wire_placement"
    /\ DropLocals
    /\ UNCHANGED << button_switches, relay_switches, relay_coils, lights,
                    ui_lights, ui_buttons, power_sources, currently_placing >>

\* WireRightClick without the return of line 1617: a pending origin is
\* cleared and the click removes what it hits all the same
WireRightClickFallsThrough(cell) ==
    /\ outcome # "panic"
    /\ currently_placing = PlacingWire
    /\ wire_origin' = None
    /\ wires' = WithoutWires(wires, cell)
    /\ lights' = WithoutDevices(lights, cell)
    /\ button_switches' = WithoutDevices(button_switches, cell)
    /\ relay_switches' = WithoutDevices(relay_switches, cell)
    /\ relay_coils' = WithoutDevices(relay_coils, cell)
    /\ last_system' = "handle_wire_placement"
    /\ DropLocals
    /\ UNCHANGED << ui_lights, ui_buttons, power_sources, currently_placing >>

\* WireRightClick with the power sources on the clicked cell despawned too
WireRightClickRemovingSource(cell) ==
    /\ outcome # "panic"
    /\ currently_placing = PlacingWire
    /\ IF wire_origin # None
       THEN /\ wire_origin' = None
            /\ UNCHANGED << wires, lights, button_switches, relay_switches,
                            relay_coils, power_sources >>
       ELSE /\ wire_origin' = wire_origin
            /\ wires' = WithoutWires(wires, cell)
            /\ lights' = WithoutDevices(lights, cell)
            /\ button_switches' = WithoutDevices(button_switches, cell)
            /\ relay_switches' = WithoutDevices(relay_switches, cell)
            /\ relay_coils' = WithoutDevices(relay_coils, cell)
            /\ power_sources' = SelectSeq(power_sources, LAMBDA p : p.pos # cell)
    /\ last_system' = "handle_wire_placement"
    /\ DropLocals
    /\ UNCHANGED << ui_lights, ui_buttons, currently_placing >>

\* handle_wire_placement, lines 1614-1685: right click on a cell
WireRightClick(cell) ==
    /\ outcome # "panic"
    /\ currently_placing = PlacingWire
    /\ IF wire_origin # None
       THEN /\ wire_origin' = None
            /\ UNCHANGED << wires, lights, button_switches, relay_switches,
                            relay_coils >>
       ELSE /\ wire_origin' = wire_origin
            /\ wires' = WithoutWires(wires, cell)
            /\ lights' = WithoutDevices(lights, cell)
            /\ button_switches' = WithoutDevices(button_switches, cell)
            /\ relay_switches' = WithoutDevices(relay_switches, cell)
            /\ relay_coils' = WithoutDevices(relay_coils, cell)
    /\ last_system' = "handle_wire_placement"
    /\ DropLocals
    /\ UNCHANGED << ui_lights, ui_buttons, power_sources, currently_placing >>

\* handle_wire_placement, lines 1687-1691: left click left of the grid
WireLeftClickOutside ==
    /\ outcome # "panic"
    /\ currently_placing = PlacingWire
    /\ wire_origin' = None
    /\ last_system' = "handle_wire_placement"
    /\ DropLocals
    /\ UNCHANGED << wires, button_switches, relay_switches, relay_coils, lights,
                    ui_lights, ui_buttons, power_sources, currently_placing >>

\* the left-click halves of handle_light_placement, handle_button_placement,
\* handle_relay_switch_placement and handle_relay_coil_placement (lines
\* 856-966, 988-1120, 1141-1273, 1293-1400) on a cell
PlaceLeftClick(cell) ==
    /\ outcome # "panic"
    /\ currently_placing # PlacingWire
    /\ \E low \in SubOne(cell.y) :
          LET kind == currently_placing.kind
              id == currently_placing.id
              handler == IF kind = "Light" THEN "handle_light_placement"
                         ELSE IF kind = "Button" THEN "handle_button_placement"
                         ELSE IF kind = "RelaySwitch"
                         THEN "handle_relay_switch_placement"
                         ELSE "handle_relay_coil_placement"
          IN IF low = None
             THEN \* the subtraction panics while the component is built:
                  \* nothing is spawned and the mode is not reset
                  /\ outcome' = "panic"
                  /\ last_system' = handler
                  /\ UNCHANGED << wires, button_switches, relay_switches,
                                  relay_coils, lights, ui_lights, ui_buttons,
                                  power_sources, currently_placing, wire_origin,
                                  active_button_ids, button_wires,
                                  active_relay_ids, relay_wires, wire_positions,
                                  wire_connections >>
             ELSE LET bottom == GridPosition(cell.x, low[1])
                  IN /\ lights' = IF kind = "Light"
                                  THEN Append(lights, [id |-> id, top |-> Top(cell),
                                                       bottom |-> bottom])
                                  ELSE lights
                     /\ button_switches' =
                           IF kind = "Button"
                           THEN Append(button_switches,
                                       [id |-> id, typ |-> currently_placing.typ,
                                        top |-> Top(cell), bottom |-> bottom])
                           ELSE button_switches
                     /\ relay_switches' =
                           IF kind = "RelaySwitch"
                           THEN Append(relay_switches,
                                       [id |-> id, typ |-> currently_placing.typ,
                                        top |-> Top(cell), bottom |-> bottom])
                           ELSE relay_switches
                     /\ relay_coils' =
                           IF kind = "RelayCoil"
                           THEN Append(relay_coils,
                                       [id |-> id, top |-> Top(cell),
                                        bottom |-> bottom, activated |-> FALSE])
                           ELSE relay_coils
                     /\ last_system' = handler
                     /\ currently_placing' = PlacingWire
                     /\ DropLocals
                     /\ UNCHANGED << wires, ui_lights, ui_buttons, power_sources,
                                     wire_origin >>

\* the right-click halves of the same four handlers (lines 851-854, 983-986,
\* 1136-1139, 1288-1291)
PlaceRightClick ==
    /\ outcome # "panic"
    /\ currently_placing # PlacingWire
    /\ currently_placing' = PlacingWire
    /\ last_system' = "accept_input"
    /\ DropLocals
    /\ UNCHANGED << wires, button_switches, relay_switches, relay_coils, lights,
                    ui_lights, ui_buttons, power_sources, wire_origin >>

\* a click on a selector of the palette: the selector's handler sets
\* currently_placing; accept_input, which Bevy may run before or after it,
\* sees a left click left of the grid and resets wire_origin (lines
\* 1687-1691) if it still finds wires being placed
Select(placing, system) ==
    /\ outcome # "panic"
    /\ currently_placing' = placing
    /\ wire_origin' \in IF currently_placing = PlacingWire
                        THEN {wire_origin, None} ELSE {wire_origin}
    /\ last_system' = system
    /\ DropLocals
    /\ UNCHANGED << wires, button_switches, relay_switches, relay_coils, lights,
                    ui_lights, ui_buttons, power_sources >>

\* handle_light_button_press, lines 1409-1419
SelectLight(i) ==
    /\ ~\E k \in 1..Len(lights) : lights[k].id = i
    /\ Select(PlacingLight(i), "handle_light_button_press")

\* handle_button_button_press, lines 1434-1448
SelectButton(i, typ) ==
    /\ ~\E k \in 1..Len(button_switches) :
          button_switches[k].id = i /\ button_switches[k].typ = typ
    /\ Select(PlacingButton(i, typ), "handle_button_button_press")

\* SelectRelaySwitch refusing only above the cap, > for the >= of line 1465
SelectRelaySwitchOffByOne(i, typ) ==
    /\ Cardinality({k \in 1..Len(relay_switches) :
                      relay_switches[k].id = i /\ relay_switches[k].typ = typ})
         <= RelaySwitchCap
    /\ Select(PlacingRelaySwitch(i, typ), "handle_relay_switch_button_press")

\* handle_relay_switch_button_press, lines 1456-1476
SelectRelaySwitch(i, typ) ==
    /\ Cardinality({k \in 1..Len(relay_switches) :
                      relay_switches[k].id = i /\ relay_switches[k].typ = typ})
         < RelaySwitchCap
    /\ Select(PlacingRelaySwitch(i, typ), "handle_relay_switch_button_press")

\* SelectRelayCoil without the test of lines 1484-1489
SelectRelayCoilUnguarded(i) ==
    Select(PlacingRelayCoil(i), "handle_relay_coil_button_press")

\* handle_relay_coil_button_press, lines 1484-1497
SelectRelayCoil(i) ==
    /\ ~\E k \in 1..Len(relay_coils) : relay_coils[k].id = i
    /\ Select(PlacingRelayCoil(i), "handle_relay_coil_button_press")

\* setup: an empty board
InitBoard ==
    /\ wires = << >>
    /\ button_switches = << >>
    /\ relay_switches = << >>
    /\ relay_coils = << >>
    /\ lights = << >>
    /\ ui_lights = [i \in Ids |-> FALSE]
    /\ ui_buttons = [i \in Ids |-> FALSE]
    /\ power_sources = PowerSources
    /\ NoEdit
    /\ NoLocals

NextBoard ==
    \/ Tick
    \/ \E i \in Ids : Press(i)
    \/ \E cell \in BoardCells : WireRoom(cell) /\ WireLeftClick(cell)
    \/ \E cell \in BoardCells : WireRightClick(cell)
    \/ WireLeftClickOutside
    \/ \E cell \in BoardCells : Room /\ PlaceLeftClick(cell)
    \/ PlaceRightClick
    \/ \E i \in Ids : Room /\ SelectLight(i)
    \/ \E i \in Ids, typ \in SwitchType : Room /\ SelectButton(i, typ)
    \/ \E i \in Ids, typ \in SwitchType : Room /\ SelectRelaySwitch(i, typ)
    \/ \E i \in Ids : Room /\ SelectRelayCoil(i)

SpecBoard == InitBoard /\ [][NextBoard]_vars

\* the cells the model clicks on while it draws wires: a square of four
\* cells with the negative source at a corner
WiringCells ==
    {GridPosition(x, y) : x \in 0..1, y \in NegY..(NegY + 1)}

\* wire placements and removals on the empty board
NextWiring ==
    \/ \E cell \in WiringCells : WireRoom(cell) /\ WireLeftClick(cell)
    \/ \E cell \in WiringCells : WireRightClick(cell)
    \/ WireLeftClickOutside

SpecWiring == InitBoard /\ [][NextWiring]_vars

\* the cells the model places relay switches on: two cells of one row, so
\* that a right click removes the switches of one cell and keeps the others
ContactCells == {GridPosition(x, NegY + 1) : x \in 0..1}

\* the model places relay switches while the board holds at most
\* RelaySwitchCap of them
ContactRoom == Len(relay_switches) <= RelaySwitchCap

\* selections, placements and removals of the contacts of the first relay
NextContacts ==
    \/ \E typ \in SwitchType : ContactRoom /\ SelectRelaySwitch(1, typ)
    \/ \E cell \in ContactCells : ContactRoom /\ PlaceLeftClick(cell)
    \/ PlaceRightClick
    \/ \E cell \in ContactCells : WireRightClick(cell)

SpecContacts == InitBoard /\ [][NextContacts]_vars

\* the cells the model clicks on at the lower edge of the grid: the lowest
\* row, which convert_mouse_to_grid returns for a cursor in the lowest 20
\* pixels of the window, and the row above it
EdgeCells == {GridPosition(0, y) : y \in 0..1}

\* selections, placements and removals of devices at the lower edge
NextEdge ==
    \/ Tick
    \/ \E cell \in EdgeCells : Room /\ PlaceLeftClick(cell)
    \/ PlaceRightClick
    \/ \E cell \in EdgeCells : WireRightClick(cell)
    \/ \E i \in Ids : Room /\ SelectLight(i)
    \/ \E i \in Ids, typ \in SwitchType : Room /\ SelectButton(i, typ)
    \/ \E i \in Ids, typ \in SwitchType : Room /\ SelectRelaySwitch(i, typ)
    \/ \E i \in Ids : Room /\ SelectRelayCoil(i)

SpecEdge == InitBoard /\ [][NextEdge]_vars

\* the cells the model clicks on to place and to remove: three cells of one
\* column, so that a device placed on the middle one has its top, its centre
\* and its bottom on a cell that can be clicked
EraseCells == {GridPosition(0, y) : y \in NegY..(NegY + 2)}

\* placements of wires and devices, presses and removals
NextErase ==
    \/ \E i \in Ids : Press(i)
    \/ \E cell \in EraseCells : WireRoom(cell) /\ WireLeftClick(cell)
    \/ \E cell \in EraseCells : WireRightClick(cell)
    \/ WireLeftClickOutside
    \/ \E cell \in EraseCells : Room /\ PlaceLeftClick(cell)
    \/ PlaceRightClick
    \/ \E i \in Ids : Room /\ SelectLight(i)
    \/ \E i \in Ids, typ \in SwitchType : Room /\ SelectButton(i, typ)
    \/ \E i \in Ids, typ \in SwitchType : Room /\ SelectRelaySwitch(i, typ)
    \/ \E i \in Ids : Room /\ SelectRelayCoil(i)

SpecErase == InitBoard /\ [][NextErase]_vars

(***************************************************************************)
(* Vocabulary of the properties, read off the state after a tick.          *)
(***************************************************************************)
Ticked == outcome # "none"

IdSet(ids) == {ids[k] : k \in 1..Len(ids)}

Count(seq, e) == Cardinality({k \in 1..Len(seq) : seq[k] = e})

SourceAt(typ) ==
    power_sources[CHOOSE k \in 1..Len(power_sources) :
                     power_sources[k].typ = typ].pos

\* a switch device is present as an edge: NormallyOpen and active, or
\* NormallyClosed and not active
Present(switch, active) ==
    \/ switch.typ = "NormallyOpen" /\ switch.id \in active
    \/ switch.typ = "NormallyClosed" /\ switch.id \notin active

\* the conductive edges of the last tick, as unordered pairs of positions
ConductiveEdges ==
    {{wires[k].first, wires[k].second} : k \in 1..Len(wires)}
    \cup {{button_switches[k].top, button_switches[k].bottom} :
            k \in {j \in 1..Len(button_switches) :
                     Present(button_switches[j], IdSet(active_button_ids))}}
    \cup {{relay_switches[k].top, relay_switches[k].bottom} :
            k \in {j \in 1..Len(relay_switches) :
                     Present(relay_switches[j], IdSet(active_relay_ids))}}

ConductiveNodes == UNION ConductiveEdges

RECURSIVE Reach(_)
Reach(S) ==
    LET N == S \cup UNION {e \in ConductiveEdges : e \cap S # {}}
    IN IF N = S THEN S ELSE Reach(N)

Joined(a, b) ==
    a \in ConductiveNodes /\ b \in ConductiveNodes /\ b \in Reach({a})

\* the marks the node list of the last tick holds for a position
MarksOf(pos) ==
    {wire_positions[k].mark :
        k \in {j \in 1..Len(wire_positions) : wire_positions[j].pos = pos}}

OppositeMarks(top, bottom) ==
    \/ "Positive" \in MarksOf(top) /\ "Negative" \in MarksOf(bottom)
    \/ "Negative" \in MarksOf(top) /\ "Positive" \in MarksOf(bottom)

Reversed(top, bottom) ==
    "Negative" \in MarksOf(top) /\ "Positive" \in MarksOf(bottom)

Unreachable(coil) == MarksOf(coil.top) = {} \/ MarksOf(coil.bottom) = {}

(***************************************************************************)
(* C1: after any tick, the negative walk has failed with a short circuit   *)
(* if and only if both power source positions are nodes of the tick's      *)
(* topology joined by a path of conductive edges; otherwise both walks     *)
(* have succeeded.                                                         *)
(***************************************************************************)
C1_ShortIffSourcesJoined ==
    Ticked =>
        /\ outcome \in {"ok", "short"}
        /\ outcome = "short" <=> Joined(SourceAt("Positive"), SourceAt("Negative"))

\* a short circuit whose path runs over one wire and a conducting switch
C1_Witness ==
    /\ outcome = "short"
    /\ Len(wires) = 1
    /\ {wires[1].first, wires[1].second}
         # {SourceAt("Positive"), SourceAt("Negative")}
    /\ Len(button_wires) + Len(relay_wires) = 1

(***************************************************************************)
(* C2: a tick that ends in a short circuit leaves every lamp's is_lit as   *)
(* it was before the tick.                                                 *)
(***************************************************************************)
C2_LampsFrozenOnShort ==
    [][(last_system' = "simulate" /\ outcome' = "short")
        => ui_lights' = ui_lights]_vars

\* a short-circuited tick after which a lamp is still lit
C2_Witness ==
    /\ last_system = "simulate"
    /\ outcome = "short"
    /\ \E k \in 1..Len(lights) : ui_lights[lights[k].id]

C4_LampLitIffOppositeMarks ==
    outcome = "ok" =>
        \A i \in Ids :
            ui_lights[i] <=>
                \E k \in 1..Len(lights) :
                    lights[k].id = i /\ OppositeMarks(lights[k].top, lights[k].bottom)

\* a lamp lit with its top Negative and its bottom Positive
C4_Witness ==
    /\ outcome = "ok"
    /\ \E k \in 1..Len(lights) :
          ui_lights[lights[k].id] /\ Reversed(lights[k].top, lights[k].bottom)

(***************************************************************************)
(* C5: after a tick without short circuit a coil with both terminals in    *)
(* the node list is activated if and only if its terminals carry opposite  *)
(* polarities.                                                             *)
(***************************************************************************)
C5_CoilActivatedIffOppositeMarks ==
    outcome = "ok" =>
        \A k \in 1..Len(relay_coils) :
            ~Unreachable(relay_coils[k]) =>
                (relay_coils[k].activated <=>
                    OppositeMarks(relay_coils[k].top, relay_coils[k].bottom))

\* a coil activated with its top Negative and its bottom Positive
C5_Witness ==
    /\ outcome = "ok"
    /\ \E k \in 1..Len(relay_coils) :
          /\ relay_coils[k].activated
          /\ Reversed(relay_coils[k].top, relay_coils[k].bottom)

CoilActive(coils, id) ==
    \E c \in 1..Len(coils) : coils[c].id = id /\ coils[c].activated

\* every switch of the sequence with the endpoints of switch k has its id and
\* kind, so an edge between these endpoints is an edge of such a switch
Attributable(switches, k) ==
    \A j \in 1..Len(switches) :
        WireFrom(switches[j]) = WireFrom(switches[k]) =>
            switches[j].id = switches[k].id /\ switches[j].typ = switches[k].typ

\* the number of switches with the endpoints of wire w that are present
PresentAt(switches, active, w) ==
    Cardinality({k \in 1..Len(switches) :
                    WireFrom(switches[k]) = w /\ Present(switches[k], active)})

SwitchWires(switches) == {WireFrom(switches[k]) : k \in 1..Len(switches)}

\* the n-th entry of the edge list of the last tick joins the ends of wire w
EdgeJoins(n, w) ==
    /\ n \in 1..Len(wire_connections)
    /\ wire_connections[n][1] \in 1..Len(wire_positions)
    /\ wire_connections[n][2] \in 1..Len(wire_positions)
    /\ wire_positions[wire_connections[n][1]].pos = w.first
    /\ wire_positions[wire_connections[n][2]].pos = w.second

(***************************************************************************)
(* C7: in every tick a NormallyOpen relay switch contributes an edge if    *)
(* and only if a coil of its id was activated when the tick began; so the  *)
(* activation of a coil in tick N closes the switch in tick N+1, not in    *)
(* tick N.                                                                 *)
(***************************************************************************)
C7_RelayFeedbackLag ==
    [][last_system' = "simulate"
        => \A k \in 1..Len(relay_switches) :
              (relay_switches[k].typ = "NormallyOpen"
               /\ Attributable(relay_switches, k))
              => (Contains(relay_wires', WireFrom(relay_switches[k]))
                    <=> CoilActive(relay_coils, relay_switches[k].id))]_vars

\* tick N: the coil has become activated and the NormallyOpen relay switch
\* of its id has contributed no edge
C7_Witness ==
    /\ last_system = "simulate"
    /\ relay_wires = << >>
    /\ \E k \in 1..Len(relay_switches), c \in 1..Len(relay_coils) :
          /\ relay_switches[k].typ = "NormallyOpen"
          /\ relay_coils[c].id = relay_switches[k].id
          /\ relay_coils[c].activated
          /\ relay_coils[c].id \notin IdSet(active_relay_ids)

(***************************************************************************)
(* C8: in every tick the edges contributed by the button switches and by   *)
(* the relay switches are those of the devices that are NormallyOpen with  *)
(* their id in the active-id set captured by the tick, or NormallyClosed   *)
(* with their id not in it, and each of them is an entry of the edge list  *)
(* between the top and the bottom of its device.                           *)
(***************************************************************************)
C8_SwitchEdgeRule ==
    Ticked =>
        /\ Len(wire_connections)
             = Len(wires) + Len(button_wires) + Len(relay_wires)
        /\ \A n \in 1..Len(button_wires) :
              EdgeJoins(Len(wires) + n, button_wires[n])
        /\ \A n \in 1..Len(relay_wires) :
              EdgeJoins(Len(wires) + Len(button_wires) + n, relay_wires[n])
        /\ \A w \in SwitchWires(button_switches) \cup IdSet(button_wires) :
              Count(button_wires, w)
                = PresentAt(button_switches, IdSet(active_button_ids), w)
        /\ \A w \in SwitchWires(relay_switches) \cup IdSet(relay_wires) :
              Count(relay_wires, w)
                = PresentAt(relay_switches, IdSet(active_relay_ids), w)

\* a pressed id with a NormallyOpen switch that conducts and a NormallyClosed
\* one that does not
C8_Witness ==
    /\ Ticked
    /\ \E k, j \in 1..Len(button_switches) :
          /\ button_switches[k].id = button_switches[j].id
          /\ button_switches[k].id \in IdSet(active_button_ids)
          /\ button_switches[k].typ = "NormallyOpen"
          /\ button_switches[j].typ = "NormallyClosed"
          /\ Contains(button_wires, WireFrom(button_switches[k]))
          /\ ~Contains(button_wires, WireFrom(button_switches[j]))

(***************************************************************************)
(* C9: a tick captures exactly the ids whose UI button was pressed since   *)
(* the tick before, each once, and leaves every has_been_pressed false.    *)
(***************************************************************************)
C9_ButtonLatch ==
    [][last_system' = "simulate"
        => /\ IdSet(active_button_ids') = {i \in Ids : ui_buttons[i]}
           /\ \A i \in Ids : Count(active_button_ids', i) <= 1
           /\ \A i \in Ids : ~ui_buttons'[i]]_vars

\* the tick after a press: the id was active and its latch is reset
C9_Witness ==
    /\ last_system = "simulate"
    /\ active_button_ids # << >>
    /\ \A i \in Ids : ~ui_buttons[i]

(***************************************************************************)
(* C10: in every tick two relay switches of the same id and kind are both  *)
(* present as edges or both absent.                                        *)
(***************************************************************************)
C10_GangedContacts ==
    Ticked =>
        \A k, j \in 1..Len(relay_switches) :
            (/\ relay_switches[k].id = relay_switches[j].id
             /\ relay_switches[k].typ = relay_switches[j].typ
             /\ Attributable(relay_switches, k)
             /\ Attributable(relay_switches, j))
            => (Contains(relay_wires, WireFrom(relay_switches[k]))
                  <=> Contains(relay_wires, WireFrom(relay_switches[j])))

\* two NormallyOpen contacts of an activated coil, at different cells, both
\* conducting
C10_Witness ==
    /\ Ticked
    /\ \E k, j \in 1..Len(relay_switches) :
          /\ WireFrom(relay_switches[k]) # WireFrom(relay_switches[j])
          /\ relay_switches[k].id = relay_switches[j].id
          /\ relay_switches[k].typ = "NormallyOpen"
          /\ relay_switches[j].typ = "NormallyOpen"
          /\ relay_switches[k].id \in IdSet(active_relay_ids)
          /\ Contains(relay_wires, WireFrom(relay_switches[k]))
          /\ Contains(relay_wires, WireFrom(relay_switches[j]))

(***************************************************************************)
(* Vocabulary of the circuit properties.                                   *)
(***************************************************************************)
\* the lamp of the basic lighting circuit: top one cell below the positive
\* source, bottom on the negative source
BasicLamp(light) ==
    /\ light.top = GridPosition(0, PosY - 1)
    /\ light.bottom = SourceAt("Negative")

\* the wire of the basic lighting circuit
BasicWire ==
    [first |-> SourceAt("Positive"), second |-> GridPosition(0, PosY - 1)]

\* the board holds one lamp and, apart from wires, nothing else
LampOnly ==
    /\ Len(lights) = 1
    /\ button_switches = << >>
    /\ relay_switches = << >>
    /\ relay_coils = << >>

\* a node of the last tick that no path of edges joins to a power source
Island(pos) ==
    /\ pos \in ConductiveNodes
    /\ pos \notin Reach({SourceAt("Positive"), SourceAt("Negative")})

OnIsland(consumer) == Island(consumer.top) \/ Island(consumer.bottom)

(***************************************************************************)
(* C11: with the wire from the positive source to the cell below it and a  *)
(* lamp from that cell to the negative source, the lamp is lit after a     *)
(* tick; with the wire removed, it is unlit after a tick.                  *)
(***************************************************************************)
C11_BasicLighting ==
    (last_system = "simulate" /\ LampOnly /\ BasicLamp(lights[1])) =>
        /\ wires = << BasicWire >> => ui_lights[lights[1].id]
        /\ wires = << >> => ~ui_lights[lights[1].id]

(***************************************************************************)
(* C12: after a tick every node that no path joins to a power source is    *)
(* Unvisited, a short circuit is reported only when the two sources are    *)
(* joined, and after a tick without short circuit no lamp and no coil with *)
(* a terminal on such a node is lit or activated.                          *)
(***************************************************************************)
C12_IslandStaysDark ==
    Ticked =>
        /\ \A pos \in ConductiveNodes :
              Island(pos) => MarksOf(pos) = {"Unvisited"}
        /\ outcome = "short" =>
              SourceAt("Negative") \in Reach({SourceAt("Positive")})
        /\ outcome = "ok" =>
              /\ \A k \in 1..Len(lights) :
                    OnIsland(lights[k]) => ~ui_lights[lights[k].id]
              /\ \A k \in 1..Len(relay_coils) :
                    OnIsland(relay_coils[k]) => ~relay_coils[k].activated

\* a closed loop of two wires away from the sources, with a lamp terminal on
\* it
C12_Witness ==
    /\ outcome = "ok"
    /\ Len(wires) >= 2
    /\ \E k \in 1..Len(lights) :
          /\ Island(lights[k].top)
          /\ Cardinality(Reach({lights[k].top})) >= 2
          /\ \A w \in 1..Len(wires) : wires[w].first \in Reach({lights[k].top})

(***************************************************************************)
(* C13: when a tick follows a tick and captures the same button ids and    *)
(* the same relay ids as the one before, it leaves every lamp and every    *)
(* coil as the one before left them.                                       *)
(***************************************************************************)
C13_Idempotence ==
    [][(/\ last_system = "simulate"
        /\ last_system' = "simulate"
        /\ IdSet(active_button_ids') = IdSet(active_button_ids)
        /\ IdSet(active_relay_ids') = IdSet(active_relay_ids))
       => (ui_lights' = ui_lights /\ relay_coils' = relay_coils)]_vars

\* a tick has lit a lamp over two wires, and the activated coils are the
\* captured ones, so the next tick captures the same ids
C13_Witness ==
    /\ last_system = "simulate"
    /\ outcome = "ok"
    /\ active_button_ids = << >>
    /\ IdSet(active_relay_ids)
         = {relay_coils[k].id :
              k \in {j \in 1..Len(relay_coils) : relay_coils[j].activated}}
    /\ \E k \in 1..Len(lights) :
          ui_lights[lights[k].id] /\ OppositeMarks(lights[k].top, lights[k].bottom)

(***************************************************************************)
(* Vocabulary of the orientation property.                                 *)
(***************************************************************************)
\* the wires with the k-th one turned around
FlipWire(ws, k) ==
    [ws EXCEPT ![k] = [first |-> ws[k].second, second |-> ws[k].first]]

\* the edge list as a set of unordered pairs of positions
UndirectedEdges(positions, connections) ==
    {{positions[connections[n][1]].pos, positions[connections[n][2]].pos} :
        n \in 1..Len(connections)}

(***************************************************************************)
(* C14: a tick ends as the tick on the same board with any one wire (A,B)  *)
(* replaced by (B,A) would: same undirected edges, same short-circuit      *)
(* outcome, same lamps and same coils.                                     *)
(***************************************************************************)
C14_WireOrientation ==
    [][last_system' = "simulate"
        => \A k \in 1..Len(wires) :
              LET flipped == Simulate(FlipWire(wires, k), button_switches,
                                      relay_switches, relay_coils, lights,
                                      ui_lights, ui_buttons, power_sources)
              IN /\ outcome' = flipped.outcome
                 /\ ui_lights' = flipped.lit
                 /\ relay_coils' = flipped.coils
                 /\ UndirectedEdges(wire_positions', wire_connections')
                      = UndirectedEdges(flipped.positions, flipped.connections)]_vars

\* a lamp lit over two wires of which one points towards its source and one
\* away from it
C14_Witness ==
    /\ outcome = "ok"
    /\ Len(wires) = 2
    /\ wires[1].first \in {SourceAt("Positive"), SourceAt("Negative")}
    /\ wires[2].second \in {SourceAt("Positive"), SourceAt("Negative")}
    /\ wires[1].first # wires[1].second
    /\ wires[2].first # wires[2].second
    /\ \E k \in 1..Len(lights) : ui_lights[lights[k].id]

(***************************************************************************)
(* Vocabulary of the walk properties.                                      *)
(***************************************************************************)
\* the positions of the node list that carry a mark
Marked(mark) ==
    {wire_positions[n].pos :
        n \in {j \in 1..Len(wire_positions) : wire_positions[j].mark = mark}}

\* the node list as it is before the walks: every node Unvisited
Unmarked(positions) ==
    [n \in 1..Len(positions) |-> [positions[n] EXCEPT !.mark = "Unvisited"]]

(***************************************************************************)
(* C15: a walk whose source is no node of the topology returns success and *)
(* leaves the node list as it is; in a tick it marks nothing, and a tick   *)
(* whose negative source is no node reports no short circuit.              *)
(***************************************************************************)
C15_NoOpWalk ==
    Ticked =>
        \A mark \in {"Positive", "Negative"} :
            MarksOf(SourceAt(mark)) = {} =>
                /\ walk_wires(SourceAt(mark), mark, wire_positions, wire_connections)
                     = [ok |-> TRUE, positions |-> wire_positions]
                /\ Marked(mark) = {}
                /\ mark = "Negative" => outcome = "ok"

\* the positive walk has marked nodes and the negative source is no node
C15_Witness ==
    /\ Ticked
    /\ MarksOf(SourceAt("Negative")) = {}
    /\ Marked("Positive") # {}
    /\ Marked("Unvisited") # {}

(***************************************************************************)
(* C16: no tick ends in the failure of the positive walk: the walk from    *)
(* the positive source over the unmarked topology succeeds, and a short    *)
(* circuit is reported by the negative walk on reaching a Positive node.   *)
(***************************************************************************)
C16_PositiveWalkSucceeds ==
    /\ outcome # "panic"
    /\ Ticked =>
          walk_wires(SourceAt("Positive"), "Positive",
                     Unmarked(wire_positions), wire_connections).ok
    /\ outcome = "short" =>
          /\ Marked("Positive") \cap Reach({SourceAt("Negative")}) # {}
          /\ ~walk_wires(SourceAt("Negative"), "Negative",
                         walk_wires(SourceAt("Positive"), "Positive",
                                    Unmarked(wire_positions),
                                    wire_connections).positions,
                         wire_connections).ok

\* a short circuit over two wires between the same two nodes: the positive
\* walk has popped a node it had already marked
C16_Witness ==
    /\ outcome = "short"
    /\ Len(wires) = 2
    /\ wires[1].first # wires[1].second
    /\ {wires[1].first, wires[1].second} = {wires[2].first, wires[2].second}

(***************************************************************************)
(* Vocabulary of the consumer properties.                                  *)
(***************************************************************************)
\* the lamps and the coils, as pairs of terminals
Consumers ==
    {WireFrom(lights[k]) : k \in 1..Len(lights)}
    \cup {WireFrom(relay_coils[k]) : k \in 1..Len(relay_coils)}

\* top joined to the positive source and bottom to the negative source
AcrossSources(consumer) ==
    /\ consumer.first \in Reach({SourceAt("Positive")})
    /\ consumer.second \in Reach({SourceAt("Negative")})

(***************************************************************************)
(* C17: the edge list of a tick has one entry per wire and per conducting  *)
(* switch and none for a lamp or a coil, and a lamp or coil whose top is   *)
(* joined to the positive source and whose bottom is joined to the         *)
(* negative source causes no short circuit.                                *)
(***************************************************************************)
C17_ConsumersNoEdge ==
    Ticked =>
        /\ Len(wire_connections)
             = Len(wires) + Len(button_wires) + Len(relay_wires)
        /\ \A n \in 1..Len(wires) : EdgeJoins(n, wires[n])
        /\ UndirectedEdges(wire_positions, wire_connections) = ConductiveEdges
        /\ \A consumer \in Consumers :
              (/\ AcrossSources(consumer)
               /\ SourceAt("Negative") \notin Reach({SourceAt("Positive")}))
              => outcome = "ok"

\* a lamp wired across the two sources is lit and the tick reports no short
\* circuit
C17_Witness ==
    /\ outcome = "ok"
    /\ \E k \in 1..Len(lights) :
          /\ AcrossSources(WireFrom(lights[k]))
          /\ MarksOf(lights[k].top) = {"Positive"}
          /\ MarksOf(lights[k].bottom) = {"Negative"}
          /\ ui_lights[lights[k].id]

(***************************************************************************)
(* C18: a tick leaves the wires, the switch devices, the lamps, the power  *)
(* sources and the id and terminals of every coil as they are; it writes   *)
(* only has_been_pressed, activated and is_lit.                            *)
(***************************************************************************)
C18_TickFrame ==
    [][last_system' = "simulate"
        => /\ wires' = wires
           /\ button_switches' = button_switches
           /\ relay_switches' = relay_switches
           /\ lights' = lights
           /\ power_sources' = power_sources
           /\ Len(relay_coils') = Len(relay_coils)
           /\ \A k \in 1..Len(relay_coils) :
                 [relay_coils'[k] EXCEPT !.activated = FALSE]
                   = [relay_coils[k] EXCEPT !.activated = FALSE]
           /\ DOMAIN ui_lights' = DOMAIN ui_lights
           /\ DOMAIN ui_buttons' = DOMAIN ui_buttons]_vars

\* a tick that has found a button latch set and a coil activated and has
\* reset both
C18_Witness ==
    /\ last_system = "simulate"
    /\ active_button_ids # << >>
    /\ \A i \in Ids : ~ui_buttons[i]
    /\ button_switches # << >>
    /\ \E k \in 1..Len(relay_coils) :
          /\ relay_coils[k].id \in IdSet(active_relay_ids)
          /\ ~relay_coils[k].activated

(***************************************************************************)
(* Vocabulary of the reachability property.                                *)
(***************************************************************************)
\* the nodes a path of edges joins to a source that is a node
Component(source) ==
    IF source \in ConductiveNodes THEN Reach({source}) ELSE {}

(***************************************************************************)
(* C20: after a tick the nodes marked Positive are the nodes joined to the *)
(* positive source by a path of edges; after a tick without short circuit  *)
(* the nodes marked Negative are those joined to the negative source, and  *)
(* the two sets are disjoint.                                              *)
(***************************************************************************)
C20_MarksAreComponents ==
    Ticked =>
        /\ \A n, m \in 1..Len(wire_positions) :
              n # m => wire_positions[n].pos # wire_positions[m].pos
        /\ Marked("Positive") = Component(SourceAt("Positive"))
        /\ outcome = "ok" =>
              /\ Marked("Negative") = Component(SourceAt("Negative"))
              /\ Component(SourceAt("Positive"))
                   \cap Component(SourceAt("Negative")) = {}

\* both walks have marked their source and a node beyond it
C20_Witness ==
    /\ outcome = "ok"
    /\ Cardinality(Marked("Positive")) >= 2
    /\ Cardinality(Marked("Negative")) >= 2

(***************************************************************************)
(* C19: in every state reached by placements, removals, presses and ticks  *)
(* there are exactly two power sources, the Positive one at (0,19) and the *)
(* Negative one at (0,16).                                                 *)
(***************************************************************************)
C19_TwoPowerSources ==
    /\ Len(power_sources) = 2
    /\ {power_sources[k] : k \in 1..Len(power_sources)}
         = {[pos |-> GridPosition(0, 19), typ |-> "Positive"],
            [pos |-> GridPosition(0, 16), typ |-> "Negative"]}

\* a right click on the cell of a power source has removed the button switch
\* placed there, whose UI button had been pressed, and has left the wire on
\* the cell of the negative source
C19_Witness ==
    /\ last_system = "handle_wire_placement"
    /\ wire_origin = None
    /\ button_switches = << >>
    /\ \E i \in Ids : ui_buttons[i]
    /\ \E k \in 1..Len(wires) : WireHit(wires[k], SourceAt("Negative"))

(***************************************************************************)
(* Vocabulary of the topology properties.                                  *)
(***************************************************************************)
\* the element sequence of the last tick
TickElements == Elements(wires, button_wires, relay_wires)

\* the node list of the last tick as it was when the walk with this mark
\* began
BeforeWalk(mark) ==
    IF mark = "Positive" THEN Unmarked(wire_positions)
    ELSE walk_wires(SourceAt("Positive"), "Positive",
                    Unmarked(wire_positions), wire_connections).positions

NoRepeat(seq) == \A i, j \in 1..Len(seq) : i # j => seq[i] # seq[j]

(***************************************************************************)
(* C21: each walk of a tick ends after at most one iteration for its       *)
(* source and one per edge, writes the mark of a node at most once, and    *)
(* returns what walk_wires returns, whatever loops, parallel wires and     *)
(* cycles the topology has.                                                *)
(***************************************************************************)
C21_WalkTerminates ==
    Ticked =>
        \A mark \in {"Positive", "Negative"} :
            LET counted == WalkCount(<< SourceAt(mark) >>, mark, BeforeWalk(mark),
                                     wire_connections, 0, << >>)
                walked == walk_wires(SourceAt(mark), mark, BeforeWalk(mark),
                                     wire_connections)
            IN /\ counted.pops <= 1 + Len(wire_connections)
               /\ NoRepeat(counted.marked)
               /\ counted.ok = walked.ok
               /\ counted.positions = walked.positions

\* the positive walk over a loop on its source and two wires between the same
\* two nodes
C21_Witness ==
    /\ Ticked
    /\ \E a, b, c \in 1..Len(wires) :
          /\ wires[a].first = SourceAt("Positive")
          /\ wires[a].second = SourceAt("Positive")
          /\ b # c
          /\ {wires[b].first, wires[b].second} = {wires[c].first, wires[c].second}
          /\ wires[b].first # wires[b].second
          /\ SourceAt("Positive") \in {wires[b].first, wires[b].second}

\* the traversal of lines 1864-1895 taking the pending position from the
\* front of the work list instead of its end
RECURSIVE WalkLoopQueue(_, _, _, _)
WalkLoopQueue(to_visit, mark, positions, connections) ==
    IF to_visit = << >> THEN [ok |-> TRUE, positions |-> positions]
    ELSE LET pos == Head(to_visit)
             rest == Tail(to_visit)
             index == Position(positions, pos)
         IN IF index = 0
            THEN WalkLoopQueue(rest, mark, positions, connections)
            ELSE IF positions[index].mark = "Unvisited"
            THEN LET written == [positions EXCEPT ![index].mark = mark]
                 IN WalkLoopQueue(rest \o NextConnections(connections, index, written, mark),
                                  mark, written, connections)
            ELSE IF positions[index].mark # mark
            THEN [ok |-> FALSE, positions |-> positions]
            ELSE WalkLoopQueue(rest, mark, positions, connections)

(***************************************************************************)
(* C22: on the graph of a tick, the walk that takes pending nodes from the *)
(* end of the work list and the walk that takes them from its front agree  *)
(* on success or short circuit, and on success leave the same marks.       *)
(***************************************************************************)
C22_OrderOfWorkList ==
    Ticked =>
        \A mark \in {"Positive", "Negative"} :
            LET stack == WalkLoop(<< SourceAt(mark) >>, mark, BeforeWalk(mark),
                                  wire_connections)
                queue == WalkLoopQueue(<< SourceAt(mark) >>, mark, BeforeWalk(mark),
                                       wire_connections)
            IN /\ stack.ok = queue.ok
               /\ stack.ok => stack.positions = queue.positions

\* a tick without short circuit whose positive source has two different
\* neighbours, one of them reached by two wires: the two walks take them in
\* different orders and pop one of them twice
C22_Witness ==
    /\ Ticked
    /\ outcome = "ok"
    /\ \E a, b, c \in 1..Len(wires) :
          /\ a # b
          /\ wires[a] = wires[b]
          /\ wires[a].first = SourceAt("Positive")
          /\ wires[c].first = SourceAt("Positive")
          /\ wires[a].second # SourceAt("Positive")
          /\ wires[c].second # SourceAt("Positive")
          /\ wires[a].second # wires[c].second

\* the orders of n elements
Perms(n) == {p \in [1..n -> 1..n] : \A i, j \in 1..n : i # j => p[i] # p[j]}

Permuted(seq, p) == [i \in 1..Len(seq) |-> seq[p[i]]]

\* what a tick over this element sequence decides: the topology of lines
\* 1752-1772, the two walks and the resolution of the consumers of the board
TickOutputs(elems) ==
    LET topo == BuildTopology(elems, << >>, << >>)
        positive == walk_wires(SourceAt("Positive"), "Positive",
                               topo.positions, topo.connections)
        negative == walk_wires(SourceAt("Negative"), "Negative",
                               positive.positions, topo.connections)
        resolved == Resolve(negative.ok, negative.positions, lights, ui_lights,
                            ResetCoils(relay_coils))
    IN [outcome |-> IF negative.ok THEN "ok" ELSE "short",
        lit |-> resolved.lit,
        coils |-> resolved.coils]

(***************************************************************************)
(* C23: whatever the order in which the conductive elements of a tick are  *)
(* given to the topology builder, the tick short-circuits or not alike and *)
(* leaves the same lamp indicators and the same coil flags.                *)
(***************************************************************************)
C23_ElementOrder ==
    Ticked =>
        \A p \in Perms(Len(TickElements)) :
            TickOutputs(Permuted(TickElements, p))
                = [outcome |-> outcome, lit |-> ui_lights, coils |-> relay_coils]

\* a lamp lit through two different wires, which the builder can take in two
\* orders
C23_Witness ==
    /\ Ticked
    /\ outcome = "ok"
    /\ Len(wires) = 2
    /\ wires[1] # wires[2]
    /\ \E i \in 1..Len(lights) : ui_lights[lights[i].id]

\* the endpoints of an element sequence in the order the builder reads them
RECURSIVE Endpoints(_)
Endpoints(elems) ==
    IF elems = << >> THEN << >>
    ELSE << Head(elems).first, Head(elems).second >> \o Endpoints(Tail(elems))

\* the place of the first occurrence of a position among the endpoints
FirstSeen(elems, pos) ==
    LET ends == Endpoints(elems)
    IN CHOOSE k \in 1..Len(ends) :
           /\ ends[k] = pos
           /\ \A m \in 1..(k - 1) : ends[m] # pos

(***************************************************************************)
(* C24: the node list the builder makes of the elements of a tick has no   *)
(* two entries with the same position, lists the positions in the order of *)
(* their first appearance in the element sequence, has every mark          *)
(* Unvisited, and holds only endpoints of elements; the node list the      *)
(* walks of the tick worked on is this list.                               *)
(***************************************************************************)
C24_NodeList ==
    Ticked =>
        LET nodes == BuildTopology(TickElements, << >>, << >>).positions
            ends == Endpoints(TickElements)
        IN /\ \A i, j \in 1..Len(nodes) : i # j => nodes[i].pos # nodes[j].pos
           /\ \A i \in 1..Len(nodes) : nodes[i].mark = "Unvisited"
           /\ \A i \in 1..Len(nodes) : \E k \in 1..Len(ends) : ends[k] = nodes[i].pos
           /\ \A k \in 1..Len(ends) : \E i \in 1..Len(nodes) : nodes[i].pos = ends[k]
           /\ \A i, j \in 1..Len(nodes) :
                  i < j => FirstSeen(TickElements, nodes[i].pos)
                               < FirstSeen(TickElements, nodes[j].pos)
           /\ Unmarked(wire_positions) = nodes

\* three nodes, one of them the endpoint of two wires and met again after a
\* new node was added
C24_Witness ==
    /\ Ticked
    /\ Len(wire_positions) = 3
    /\ Len(wires) = 3
    /\ wires[1].first # wires[1].second
    /\ wires[2].first = wires[1].second
    /\ wires[2].second \notin {wires[1].first, wires[1].second}
    /\ wires[3].first = wires[1].first

(***************************************************************************)
(* C25: the edge list of a tick has one entry per element of the tick, in  *)
(* the order of the elements, repeated elements included; the i-th entry   *)
(* holds two indices inside the node list, of the node at the first and of *)
(* the node at the second endpoint of the i-th element.                    *)
(***************************************************************************)
C25_EdgeList ==
    Ticked =>
        /\ Len(wire_connections) = Len(TickElements)
        /\ \A i \in 1..Len(TickElements) :
              /\ wire_connections[i][1] \in 1..Len(wire_positions)
              /\ wire_connections[i][2] \in 1..Len(wire_positions)
              /\ wire_positions[wire_connections[i][1]].pos = TickElements[i].first
              /\ wire_positions[wire_connections[i][2]].pos = TickElements[i].second

\* the same wire twice, with another wire between: the edge list holds the
\* same pair of indices twice
C25_Witness ==
    /\ Ticked
    /\ Len(wires) = 3
    /\ wires[1] = wires[3]
    /\ wires[1] # wires[2]
    /\ wires[1].first # wires[1].second
    /\ Len(wire_connections) = 3
    /\ wire_connections[1] = wire_connections[3]

\* the lamps and coils of the board, each with its terminals and with what it
\* shows: the indicator of the lamp, the flag of the coil
ConsumerStates ==
    {[wire |-> WireFrom(lights[k]), on |-> ui_lights[lights[k].id]] :
        k \in 1..Len(lights)}
    \cup {[wire |-> WireFrom(relay_coils[k]), on |-> relay_coils[k].activated] :
            k \in 1..Len(relay_coils)}

Terminals(consumer) == {consumer.first, consumer.second}

\* a is wired to the positive source, b to the negative source, and their
\* other terminals to one conductor that is joined to neither source
InSeries(a, b) ==
    \E ta \in Terminals(a), tb \in Terminals(b) :
        \E oa \in Terminals(a) \ {ta}, ob \in Terminals(b) \ {tb} :
            /\ Joined(ta, SourceAt("Positive"))
            /\ Island(oa)
            /\ Joined(oa, tb)
            /\ Joined(ob, SourceAt("Negative"))

(***************************************************************************)
(* C26: when two consumers are wired in series between the sources, the    *)
(* first from the positive source to a conductor joined to neither source  *)
(* and the second from that conductor to the negative source, and no       *)
(* conductor joins the two sources, the tick reports no short circuit and  *)
(* leaves both consumers off.                                              *)
(***************************************************************************)
C26_SeriesConsumersStayOff ==
    Ticked =>
        \A a, b \in ConsumerStates :
            (/\ InSeries(a.wire, b.wire)
             /\ ~Joined(SourceAt("Positive"), SourceAt("Negative")))
                => /\ outcome = "ok"
                   /\ ~a.on
                   /\ ~b.on

\* a lamp and a coil in series after a tick
C26_Witness ==
    /\ Ticked
    /\ Len(lights) = 1
    /\ Len(relay_coils) = 1
    /\ InSeries(WireFrom(lights[1]), WireFrom(relay_coils[1]))
    /\ ~Joined(SourceAt("Positive"), SourceAt("Negative"))

(***************************************************************************)
(* C28: whatever wires are placed and removed, every wire on the board has *)
(* its two endpoints in one column or in one row.                          *)
(***************************************************************************)
C28_WiresAxisAligned ==
    \A k \in 1..Len(wires) :
        \/ wires[k].first.x = wires[k].second.x
        \/ wires[k].first.y = wires[k].second.y

\* a wire along a row and a wire along a column, placed with clicks on the
\* four cells of a square
C28_Witness ==
    /\ last_system = "handle_wire_placement"
    /\ \E h, v \in 1..Len(wires) :
          /\ wires[h].first.y = wires[h].second.y
          /\ wires[h].first.x # wires[h].second.x
          /\ wires[v].first.x = wires[v].second.x
          /\ wires[v].first.y # wires[v].second.y

(***************************************************************************)
(* C30: whatever is selected, placed and removed, no two placed relay      *)
(* coils share a relay id and no two placed lamps share a lamp id, and the *)
(* active relay ids a tick captures name no id twice.                      *)
(***************************************************************************)
C30_OneCoilPerId ==
    /\ \A i, j \in 1..Len(relay_coils) :
          i # j => relay_coils[i].id # relay_coils[j].id
    /\ \A i, j \in 1..Len(lights) : i # j => lights[i].id # lights[j].id
    /\ \A i, j \in 1..Len(active_relay_ids) :
          i # j => active_relay_ids[i] # active_relay_ids[j]

\* the board is full of coils, placed one after the other through the
\* palette, and has been simulated
C30_Witness ==
    /\ Len(relay_coils) = MaxElems
    /\ last_system = "simulate"

\* the number of placed relay switches of a relay id, and of an id and kind
SwitchesOf(i) ==
    Cardinality({k \in 1..Len(relay_switches) : relay_switches[k].id = i})

SwitchesOfKind(i, typ) ==
    Cardinality({k \in 1..Len(relay_switches) :
                   relay_switches[k].id = i /\ relay_switches[k].typ = typ})

(***************************************************************************)
(* C29 as stated: whatever is selected, placed and removed, at most 5      *)
(* placed relay switches share one relay id.                               *)
(***************************************************************************)
C29_CapPerRelayId ==
    \A i \in Ids : SwitchesOf(i) <= RelaySwitchCap

(***************************************************************************)
(* C29 amended: whatever is selected, placed and removed, at most 5 placed *)
(* relay switches share one relay id and one kind, NormallyOpen or         *)
(* NormallyClosed; a relay id can so have up to 10 placed switches.        *)
(***************************************************************************)
C29_CapPerRelayIdAndKind ==
    \A i \in Ids, typ \in SwitchType : SwitchesOfKind(i, typ) <= RelaySwitchCap

\* the cap is reached for one kind of the first relay and a switch of the
\* other kind is placed too
C29_Witness ==
    /\ \E typ \in SwitchType : SwitchesOfKind(1, typ) = RelaySwitchCap
    /\ SwitchesOf(1) = RelaySwitchCap + 1
    /\ currently_placing = PlacingWire

\* the terminals of every placed device
PlacedDevices ==
    {WireFrom(lights[k]) : k \in 1..Len(lights)}
    \cup {WireFrom(button_switches[k]) : k \in 1..Len(button_switches)}
    \cup {WireFrom(relay_switches[k]) : k \in 1..Len(relay_switches)}
    \cup {WireFrom(relay_coils[k]) : k \in 1..Len(relay_coils)}

PlacementHandlers ==
    {"handle_light_placement", "handle_button_placement",
     "handle_relay_switch_placement", "handle_relay_coil_placement"}

(***************************************************************************)
(* C27: a placement on any cell of the grid, the lowest row included,      *)
(* completes, and every placed device has non-negative coordinates, its    *)
(* top one row above and its bottom one row below its centre: the bottom   *)
(* two rows below the top, in the same column.                             *)
(***************************************************************************)
C27_TerminalsExact ==
    /\ last_system \in PlacementHandlers => outcome # "panic"
    /\ \A d \in PlacedDevices :
          /\ d.first.x >= 0
          /\ d.first.y >= 0
          /\ d.second.x >= 0
          /\ d.second.y >= 0
          /\ d.second.x = d.first.x
          /\ d.second.y = d.first.y - 2

(***************************************************************************)
(* Vocabulary of the relay circuits: the circuit as it conducts when given *)
(* sets of button ids and relay ids are the active ones.                   *)
(***************************************************************************)
EdgesWhen(buttons_active, relays_active) ==
    {{wires[k].first, wires[k].second} : k \in 1..Len(wires)}
    \cup {{button_switches[k].top, button_switches[k].bottom} :
            k \in {j \in 1..Len(button_switches) :
                     Present(button_switches[j], buttons_active)}}
    \cup {{relay_switches[k].top, relay_switches[k].bottom} :
            k \in {j \in 1..Len(relay_switches) :
                     Present(relay_switches[j], relays_active)}}

RECURSIVE ReachWhen(_, _)
ReachWhen(edges, S) ==
    LET N == S \cup UNION {e \in edges : e \cap S # {}}
    IN IF N = S THEN S ELSE ReachWhen(edges, N)

\* a is an end of an edge and a path of edges leads from it to b
JoinedWhen(edges, a, b) ==
    a \in UNION edges /\ b \in UNION edges /\ b \in ReachWhen(edges, {a})

ShortWhen(edges) ==
    JoinedWhen(edges, SourceAt("Positive"), SourceAt("Negative"))

\* one terminal of the device is joined to one source and the other
\* terminal to the other source
FedWhen(edges, device) ==
    \/ /\ JoinedWhen(edges, device.top, SourceAt("Positive"))
       /\ JoinedWhen(edges, device.bottom, SourceAt("Negative"))
    \/ /\ JoinedWhen(edges, device.top, SourceAt("Negative"))
       /\ JoinedWhen(edges, device.bottom, SourceAt("Positive"))

\* the coil is the only coil of the board and is fed while the
\* NormallyClosed switches of its id conduct, and cut off from a source when
\* they open; neither circuit joins the two sources
SelfInterrupting(coil) ==
    /\ Len(relay_coils) = 1
    /\ \E k \in 1..Len(relay_switches) :
          /\ relay_switches[k].id = coil.id
          /\ relay_switches[k].typ = "NormallyClosed"
    /\ FedWhen(EdgesWhen({}, {}), coil)
    /\ ~ShortWhen(EdgesWhen({}, {}))
    /\ ~FedWhen(EdgesWhen({}, {coil.id}), coil)
    /\ ~ShortWhen(EdgesWhen({}, {coil.id}))

(***************************************************************************)
(* C31: a coil fed only through a NormallyClosed relay switch of its own   *)
(* id, in a circuit that does not short-circuit, changes its activated     *)
(* flag in every tick: in every state the circuit reaches, the next tick   *)
(* completes without short circuit and leaves the coil not activated if it *)
(* finds it activated, and activated if it finds it not activated.         *)
(***************************************************************************)
C31_SelfInterrupting ==
    (Len(relay_coils) = 1 /\ SelfInterrupting(relay_coils[1]))
    => LET next == Simulate(wires, button_switches, relay_switches, relay_coils,
                            lights, ui_lights, ui_buttons, power_sources)
       IN /\ next.outcome = "ok"
          /\ next.coils[1].activated = ~relay_coils[1].activated

\* the coil was activated when the last tick began and is not after it, and
\* the next tick will find its NormallyClosed switch closed again
C31_Witness ==
    /\ last_system = "simulate"
    /\ Len(relay_coils) = 1
    /\ SelfInterrupting(relay_coils[1])
    /\ relay_coils[1].id \in IdSet(active_relay_ids)
    /\ ~relay_coils[1].activated

\* the coil is the only coil of the board; a NormallyOpen button switch and a
\* NormallyOpen relay switch of its id are on the board; the coil is fed when
\* the button of that switch is active, fed when its own id is active, and not
\* fed when neither is; no circuit of the four joins the two sources
SelfHolding(coil, button) ==
    /\ Len(relay_coils) = 1
    /\ \E k \in 1..Len(button_switches) :
          /\ button_switches[k].id = button
          /\ button_switches[k].typ = "NormallyOpen"
    /\ \E k \in 1..Len(relay_switches) :
          /\ relay_switches[k].id = coil.id
          /\ relay_switches[k].typ = "NormallyOpen"
    /\ ~FedWhen(EdgesWhen({}, {}), coil)
    /\ FedWhen(EdgesWhen({button}, {}), coil)
    /\ FedWhen(EdgesWhen({}, {coil.id}), coil)
    /\ FedWhen(EdgesWhen({button}, {coil.id}), coil)
    /\ \A b \in SUBSET {button}, r \in SUBSET {coil.id} :
          ~ShortWhen(EdgesWhen(b, r))

(***************************************************************************)
(* C32: in a circuit where a coil is fed through a NormallyOpen button     *)
(* switch in parallel with a NormallyOpen relay switch of the coil's id    *)
(* and that does not short-circuit, a tick that finds the button pressed   *)
(* leaves the coil activated, and a tick that finds the coil activated     *)
(* leaves it activated, pressed or not: once activated it stays so after   *)
(* every later tick.                                                       *)
(***************************************************************************)
C32_SelfHolding ==
    [][(/\ last_system' = "simulate"
        /\ Len(relay_coils) = 1
        /\ \E b \in Ids :
              /\ SelfHolding(relay_coils[1], b)
              /\ Len(button_switches) = 1
              /\ ui_buttons[b] \/ relay_coils[1].activated)
       => /\ outcome' = "ok"
          /\ relay_coils'[1].activated]_vars

\* the last tick captured no pressed button and found the coil activated; it
\* fed the coil through the relay switch alone and left it activated
C32_Witness ==
    /\ last_system = "simulate"
    /\ outcome = "ok"
    /\ Len(relay_coils) = 1
    /\ Len(button_switches) = 1
    /\ SelfHolding(relay_coils[1], button_switches[1].id)
    /\ active_button_ids = << >>
    /\ active_relay_ids = << relay_coils[1].id >>
    /\ relay_coils[1].activated

\* the ids of the UI buttons whose latch is set
PressedIds == {i \in Ids : ui_buttons[i]}

(***************************************************************************)
(* C33: when a tick has short-circuited through a NormallyOpen relay       *)
(* switch, in a circuit that joins the two sources only while a relay id   *)
(* is active, the next tick captures no active relay id and completes      *)
(* without short circuit.                                                  *)
(***************************************************************************)
C33_RelayShortDoesNotPersist ==
    (/\ last_system = "simulate"
     /\ outcome = "short"
     /\ \E k \in 1..Len(relay_switches) :
           /\ relay_switches[k].typ = "NormallyOpen"
           /\ relay_switches[k].id \in IdSet(active_relay_ids)
     /\ ~ShortWhen(EdgesWhen(PressedIds, {})))
    => LET next == Simulate(wires, button_switches, relay_switches, relay_coils,
                            lights, ui_lights, ui_buttons, power_sources)
       IN /\ next.relay_ids = << >>
          /\ next.outcome = "ok"

\* the last tick short-circuited with the relay id active and its switch
\* conducting, the circuit without it does not join the sources, and the
\* tick has left no coil activated for the next one to capture
C33_Witness ==
    /\ last_system = "simulate"
    /\ outcome = "short"
    /\ \E k \in 1..Len(relay_switches) :
          /\ relay_switches[k].typ = "NormallyOpen"
          /\ relay_switches[k].id \in IdSet(active_relay_ids)
          /\ Contains(relay_wires, WireFrom(relay_switches[k]))
    /\ ~ShortWhen(EdgesWhen(PressedIds, {}))
    /\ \A c \in 1..Len(relay_coils) : ~relay_coils[c].activated

\* the step leaves every device, indicator and power source as it is
DevicesKept ==
    /\ button_switches' = button_switches
    /\ relay_switches' = relay_switches
    /\ relay_coils' = relay_coils
    /\ lights' = lights
    /\ power_sources' = power_sources

(***************************************************************************)
(* C34: a left click on a grid cell while wires are placed does one of two *)
(* things.  With no origin pending it records the cell as the origin and   *)
(* changes no wire.  With an origin pending it clears the origin, and adds *)
(* the one wire from the origin to the cell if the two share a column or a *)
(* row, and changes no wire otherwise.                                     *)
(***************************************************************************)
C34_TwoClickWire ==
    [][\A cell \in WiringCells :
          WireLeftClick(cell)
          => /\ DevicesKept
             /\ IF wire_origin = << >>
                THEN /\ wire_origin' = << cell >>
                     /\ wires' = wires
                ELSE /\ wire_origin' = << >>
                     /\ LET origin == wire_origin[1]
                        IN IF origin.x = cell.x \/ origin.y = cell.y
                           THEN wires' = wires \o << [first |-> origin,
                                                      second |-> cell] >>
                           ELSE wires' = wires]_vars

\* two clicks have made one wire between two different cells of a row and
\* no origin is pending
C34_Witness ==
    /\ last_system = "handle_wire_placement"
    /\ wire_origin = << >>
    /\ Len(wires) = 1
    /\ wires[1].first.y = wires[1].second.y
    /\ wires[1].first.x # wires[1].second.x

Between(a, b, c) == (a <= c /\ c <= b) \/ (b <= c /\ c <= a)

\* the cell lies on the segment of the wire, which runs along a column or
\* along a row
OnSegment(wire, cell) ==
    \/ /\ wire.first.x = wire.second.x
       /\ cell.x = wire.first.x
       /\ Between(wire.first.y, wire.second.y, cell.y)
    \/ /\ wire.first.y = wire.second.y
       /\ cell.y = wire.first.y
       /\ Between(wire.first.x, wire.second.x, cell.x)

\* the cell is the top, the centre or the bottom of the device
OnDevice(device, cell) ==
    /\ cell.x = device.top.x
    /\ cell.y \in {device.top.y, device.top.y - 1, device.bottom.y}

RECURSIVE Keep(_, _, _)
Keep(seq, Hit(_, _), cell) ==
    IF seq = << >> THEN << >>
    ELSE (IF Hit(Head(seq), cell) THEN << >> ELSE << Head(seq) >>)
         \o Keep(Tail(seq), Hit, cell)

\* the step removes a wire or a device
Removes ==
    \/ Len(wires') < Len(wires)
    \/ Len(lights') < Len(lights)
    \/ Len(button_switches') < Len(button_switches)
    \/ Len(relay_switches') < Len(relay_switches)
    \/ Len(relay_coils') < Len(relay_coils)

(***************************************************************************)
(* C35: a right click on a grid cell while wires are placed and an origin  *)
(* is pending clears the origin and removes nothing; with no origin        *)
(* pending it removes the wires whose segment contains the cell and the    *)
(* devices whose top, centre or bottom is the cell, and nothing else; and  *)
(* no other step removes a wire or a device.                               *)
(***************************************************************************)
C35_RightClick ==
    [][/\ \A cell \in EraseCells :
             WireRightClick(cell)
             => /\ wire_origin' = << >>
                /\ power_sources' = power_sources
                /\ IF wire_origin # << >>
                   THEN /\ wires' = wires
                        /\ DevicesKept
                   ELSE /\ wires' = Keep(wires, OnSegment, cell)
                        /\ lights' = Keep(lights, OnDevice, cell)
                        /\ button_switches' = Keep(button_switches, OnDevice, cell)
                        /\ relay_switches' = Keep(relay_switches, OnDevice, cell)
                        /\ relay_coils' = Keep(relay_coils, OnDevice, cell)
       /\ Removes => /\ wire_origin = << >>
                     /\ \E cell \in EraseCells : WireRightClick(cell)]_vars

\* a right click has removed the button switch whose UI button had been
\* pressed and has kept another element; a left click has then made an
\* origin pending, which the next right click will clear
C35_Witness ==
    /\ last_system = "handle_wire_placement"
    /\ wire_origin # << >>
    /\ button_switches = << >>
    /\ \E i \in Ids : ui_buttons[i]
    /\ BoardSize >= 1

====
